---- MODULE Spec2Model ----
(***************************************************************************)
(* State-machine model of the two pieces of logic of the landing page:     *)
(*   - SecretCodeDetector (the key-sequence matcher, "Konami code");       *)
(*   - FlappyGame (the frame-stepped avoidance game unlocked by the code). *)
(* The two components share no state, so each has its own specification    *)
(* over the one set of variables; the other component's variables are      *)
(* left unchanged.                                                         *)
(***************************************************************************)
EXTENDS Integers, Sequences, FiniteSets, TLC

VARIABLES
  \* ---- SecretCodeDetector (fields of the class) ----
  secretCode,    \* this.secretCode: the target pattern
  sequence,      \* this.sequence: the window of recent keys
  enabled,       \* this.enabled
  docListeners,  \* keydown listeners attached to document
  \* ---- observation of the detector (history, not program state) ----
  stream,        \* keys handled since the last start()
  fireLog,       \* stream index of every callback invocation, in order
  handledLast,   \* handler invocations caused by the latest key press
  discarded,     \* the window thrown away by the latest stop()
  op,            \* the latest operation: "new", "start", "stop" or "key"
  script,        \* the keys of a scripted scenario, else << >>
  fed,           \* number of scripted keys fed so far
  \* ---- FlappyGame (signals and pending callbacks of one instance) ----
  score,         \* score()
  playerY,       \* playerPosition().y, in half percents (100 = 50%)
  obstacles,     \* obstacles(): sequence of [id, x, height, gapSize]
  gameActive,    \* gameActive()
  gameWidth,     \* gameWidth(): the width measured by the last initGame
  mounted,       \* the component's elements are in the document
  areaWidth,     \* width of the play field while it is laid out
  playerShift,   \* vertical displacement (px) of the player element by
                 \* the crash animation's transform
  rafQueue,      \* updateGame callbacks to run in the current frame
  rafNext,       \* updateGame callbacks requested for the next frame
  crashTweens,   \* frames left of each running crash animation
  restartTimers, \* frames left of each pending restart timeout
  closeTweens,   \* frames left of each running close animation
  onCloseCalls,  \* invocations of props.onClose
  frame,         \* animation frames elapsed since mount
  \* ---- observation of the game (history, not program state) ----
  gop,           \* the latest game step
  hits,          \* handleCollision calls made by the latest tick
  lastKey,       \* the key of the latest key press
  keysUsed,      \* key presses so far
  clicksUsed,    \* clicks on the close button so far
  closeRequested, \* closeGame has been invoked
  owed           \* frame of the earliest collision not yet followed by a
                 \* fresh run, -1 when there is none

detVars == <<secretCode, sequence, enabled, docListeners, stream, fireLog,
             handledLast, discarded, op, script, fed>>

gameVars == <<score, playerY, obstacles, gameActive, gameWidth, mounted,
              areaWidth, playerShift, rafQueue, rafNext, crashTweens,
              restartTimers, closeTweens, onCloseCalls, frame, gop, hits,
              lastKey, keysUsed, clicksUsed, closeRequested, owed>>

vars == <<detVars, gameVars>>

\* ------------------------------------------------------------------------
\* Bounds of the detector model
\* ------------------------------------------------------------------------
MaxPatLen == 3      \* longest generic target pattern
MaxStream == 5      \* longest key stream of one started session

Keys == {"a", "b", "x"}          \* key identifiers pressed in SpecDetector
PatKeys == {"a", "b"}            \* key identifiers used in target patterns

Patterns == UNION {[1..n -> PatKeys] : n \in 0..MaxPatLen}

\* ------------------------------------------------------------------------
\* SecretCodeDetector
\* ------------------------------------------------------------------------

\* Mutant of sequenceMatches: the comparison loop stops one position early.
sequenceMatchesShort(seq, code) ==
  IF Len(seq) # Len(code) THEN FALSE
  ELSE \A i \in 1..(Len(code) - 1) : seq[i] = code[i]

\* sequenceMatches(): same length and equal at every position.
sequenceMatches(seq, code) ==
  IF Len(seq) # Len(code) THEN FALSE
  ELSE \A i \in 1..Len(code) : seq[i] = code[i]

\* Mutant of pushTrim: the oldest key is never evicted.
pushNoTrim(seq, code, k) == Append(seq, k)

\* The window after push(e.key) and the trimming shift().
pushTrim(seq, code, k) ==
  LET pushed == Append(seq, k)
  IN IF Len(pushed) > Len(code) THEN Tail(pushed) ELSE pushed

\* Mutant of handleKeyDown: a match does not reset the window.
handleKeyDownNoReset(seq, code, k) ==
  LET win == pushTrim(seq, code, k)
  IN [sequence |-> win, fired |-> sequenceMatches(win, code)]

\* handleKeyDown(e): the new window and whether the callback is invoked.
handleKeyDown(seq, code, k) ==
  LET win == pushTrim(seq, code, k)
  IN IF sequenceMatches(win, code)
       THEN [sequence |-> << >>, fired |-> TRUE]
       ELSE [sequence |-> win, fired |-> FALSE]

\* document.addEventListener / removeEventListener: the listener list of a
\* target holds one entry per (type, callback), so adding twice adds once.
addEventListener(ls, h) == ls \cup {h}
removeEventListener(ls, h) == ls \ {h}

\* start()
start ==
  /\ IF enabled
       THEN UNCHANGED <<enabled, docListeners, stream, fireLog>>
       ELSE /\ enabled' = TRUE
            /\ docListeners' = addEventListener(docListeners, "boundHandler")
            /\ stream' = << >>
            /\ fireLog' = << >>
  /\ op' = "start"
  /\ UNCHANGED <<secretCode, sequence, handledLast, discarded, script, fed>>
  /\ UNCHANGED gameVars

\* Mutant of stop: the flag is not cleared.
stopKeepsEnabled ==
  /\ IF ~enabled
       THEN UNCHANGED <<docListeners, sequence, discarded>>
       ELSE /\ docListeners' = removeEventListener(docListeners, "boundHandler")
            /\ sequence' = << >>
            /\ discarded' = sequence
  /\ op' = "stop"
  /\ UNCHANGED <<secretCode, enabled, stream, fireLog, handledLast,
                 script, fed>>
  /\ UNCHANGED gameVars

\* Mutant of stop: the partially matched window survives.
stopKeepsWindow ==
  /\ IF ~enabled
       THEN UNCHANGED <<enabled, docListeners, discarded>>
       ELSE /\ enabled' = FALSE
            /\ docListeners' = removeEventListener(docListeners, "boundHandler")
            /\ discarded' = sequence
  /\ op' = "stop"
  /\ UNCHANGED <<secretCode, sequence, stream, fireLog, handledLast,
                 script, fed>>
  /\ UNCHANGED gameVars

\* stop()
stop ==
  /\ IF ~enabled
       THEN UNCHANGED <<enabled, docListeners, sequence, discarded>>
       ELSE /\ enabled' = FALSE
            /\ docListeners' = removeEventListener(docListeners, "boundHandler")
            /\ sequence' = << >>
            /\ discarded' = sequence
  /\ op' = "stop"
  /\ UNCHANGED <<secretCode, stream, fireLog, handledLast,
                 script, fed>>
  /\ UNCHANGED gameVars

\* A keydown event on document, dispatched to the detector's handler when it
\* is attached.
dispatchKey(k) ==
  IF "boundHandler" \in docListeners
    THEN LET r == handleKeyDown(sequence, secretCode, k)
         IN /\ sequence' = r.sequence
            /\ stream' = Append(stream, k)
            /\ fireLog' = IF r.fired THEN Append(fireLog, Len(stream) + 1)
                                     ELSE fireLog
            /\ handledLast' = 1
    ELSE /\ handledLast' = 0
         /\ UNCHANGED <<sequence, stream, fireLog>>

KeyDown ==
  \E k \in Keys :
    /\ Len(stream) < MaxStream
    /\ dispatchKey(k)
    /\ op' = "key"
    /\ UNCHANGED <<secretCode, enabled, docListeners, discarded, script, fed>>
    /\ UNCHANGED gameVars

\* The game is not on the page (showSecretGame() is false).
GameAbsent ==
  /\ score = 0
  /\ playerY = 0
  /\ obstacles = << >>
  /\ gameActive = FALSE
  /\ gameWidth = 0
  /\ mounted = FALSE
  /\ areaWidth = 0
  /\ playerShift = 0
  /\ rafQueue = 0
  /\ rafNext = 0
  /\ crashTweens = << >>
  /\ restartTimers = << >>
  /\ closeTweens = << >>
  /\ onCloseCalls = 0
  /\ frame = 0
  /\ gop = "none"
  /\ hits = 0
  /\ lastKey = "none"
  /\ keysUsed = 0
  /\ clicksUsed = 0
  /\ closeRequested = FALSE
  /\ owed = -1

\* The state after new SecretCodeDetector(secretCode, callback).
InitDetector ==
  /\ GameAbsent
  /\ secretCode \in Patterns
  /\ sequence = << >>
  /\ enabled = FALSE
  /\ docListeners = {}
  /\ stream = << >>
  /\ fireLog = << >>
  /\ handledLast = 0
  /\ discarded = << >>
  /\ op = "new"
  /\ script = << >>
  /\ fed = 0

NextDetector == start \/ stop \/ KeyDown

SpecDetector == InitDetector /\ [][NextDetector]_vars

\* ------------------------------------------------------------------------
\* The Konami scenario: setupSecretCodeDetection and a scripted key stream
\* ------------------------------------------------------------------------
KONAMI_CODE ==
  <<"ArrowUp", "ArrowUp", "ArrowDown", "ArrowDown", "ArrowLeft",
    "ArrowRight", "ArrowLeft", "ArrowRight", "b", "a">>

KonamiKeys == {KONAMI_CODE[i] : i \in 1..Len(KONAMI_CODE)} \cup {"x"}

\* KONAMI_CODE with the key at position p replaced by k.
Substituted(p, k) == [KONAMI_CODE EXCEPT ![p] = k]

Scripts ==
  {KONAMI_CODE} \cup
  {Substituted(p, k) : p \in 1..Len(KONAMI_CODE), k \in KonamiKeys}

\* The state after setupSecretCodeDetection(callback): a detector for
\* KONAMI_CODE, started.
InitKonami ==
  /\ GameAbsent
  /\ secretCode = KONAMI_CODE
  /\ sequence = << >>
  /\ enabled = TRUE
  /\ docListeners = addEventListener({}, "boundHandler")
  /\ stream = << >>
  /\ fireLog = << >>
  /\ handledLast = 0
  /\ discarded = << >>
  /\ op = "start"
  /\ script \in Scripts
  /\ fed = 0

\* The next key of the script is pressed.
FeedKey ==
  /\ fed < Len(script)
  /\ dispatchKey(script[fed + 1])
  /\ fed' = fed + 1
  /\ op' = "key"
  /\ UNCHANGED <<secretCode, enabled, docListeners, discarded, script>>
  /\ UNCHANGED gameVars

NextKonami == FeedKey

SpecKonami == InitKonami /\ [][NextKonami]_vars

\* ------------------------------------------------------------------------
\* Properties of the detector
\* ------------------------------------------------------------------------

\* The stream indexes at which a matcher for code must fire: scanning left
\* to right, index i fires when the n keys ending at i equal code and all
\* n of them came after the previous firing (last).
RECURSIVE ExpectedFires(_, _, _, _)
ExpectedFires(s, code, i, last) ==
  IF i > Len(s) THEN << >>
  ELSE IF i - last >= Len(code) /\ SubSeq(s, i - Len(code) + 1, i) = code
    THEN <<i>> \o ExpectedFires(s, code, i + 1, i)
    ELSE ExpectedFires(s, code, i + 1, last)

\* C1: for every target pattern and every key stream delivered to a started
\* detector, the callback invocations are exactly, and once each, the key
\* presses at which the last n keys since the previous firing equal the
\* pattern (one firing per non-overlapping occurrence).
C1_FiresIffWindowEqualsTarget ==
  fireLog = ExpectedFires(stream, secretCode, 1, 0)

\* C1 witness: a pattern of length >= 2 has fired twice, and at some key
\* press in between the last n keys equalled the pattern without a firing
\* (an overlapping repeat).
C1_Witness ==
  /\ Len(secretCode) >= 2
  /\ Len(fireLog) >= 2
  /\ \E i \in Len(secretCode)..Len(stream) :
       /\ SubSeq(stream, i - Len(secretCode) + 1, i) = secretCode
       /\ \A j \in 1..Len(fireLog) : fireLog[j] # i

\* C2: with the Konami detector, the exact ten-key sequence fires the
\* callback once, on the tenth key, and a sequence with one key substituted
\* never fires it.
C2_KonamiScenario ==
  /\ script = KONAMI_CODE /\ fed = Len(script) => fireLog = <<Len(KONAMI_CODE)>>
  /\ script = KONAMI_CODE /\ fed < Len(script) => fireLog = << >>
  /\ script # KONAMI_CODE => fireLog = << >>

\* C2 witness: the whole code has been typed and the callback has fired on
\* the tenth key.
C2_Witness ==
  /\ script = KONAMI_CODE
  /\ fed = Len(KONAMI_CODE)
  /\ fireLog = <<Len(KONAMI_CODE)>>

\* C3: the window of recent keys is never longer than the target pattern.
C3_WindowBounded == Len(sequence) <= Len(secretCode)

\* C3 witness: more keys than the pattern is long have been handled without
\* a match, and the window is full (keys have been evicted).
C3_Witness ==
  /\ Len(secretCode) >= 2
  /\ fireLog = << >>
  /\ Len(stream) > Len(secretCode)
  /\ Len(sequence) = Len(secretCode)

\* What start() and stop() can change of the detector.
detectorState == <<secretCode, sequence, enabled, docListeners>>

\* C4: start() and stop() are idempotent: the listener is attached exactly
\* while the detector is enabled (never more than once), start() while
\* started and stop() while stopped change nothing, and a key press is
\* handled at most once and fires the callback at most once.
C4_StartStopIdempotent ==
  /\ [](/\ enabled <=> ("boundHandler" \in docListeners)
        /\ Cardinality(docListeners) <= 1
        /\ handledLast <= 1
        /\ \A i, j \in 1..Len(fireLog) : i < j => fireLog[i] < fireLog[j])
  /\ [][/\ (op' = "start" /\ enabled) => UNCHANGED detectorState
        /\ (op' = "stop" /\ ~enabled) => UNCHANGED detectorState]_vars

\* C4 witness: start() has just been called on a started detector that is
\* in the middle of a match.
C4_Witness ==
  /\ op = "start"
  /\ enabled
  /\ sequence # << >>

\* C5: while stopped, the detector has no listener and an empty window, and
\* a key press changes neither the window nor the firings; every firing
\* comes after at least n keys of the current started session, so keys
\* typed before a stop() never complete a match after a later start().
C5_StopDiscardsWindow ==
  /\ [](/\ ~enabled => sequence = << >> /\ docListeners = {}
        /\ \A j \in 1..Len(fireLog) : fireLog[j] >= Len(secretCode))
  /\ [][(op' = "key" /\ ~enabled) =>
          UNCHANGED <<sequence, stream, fireLog>> /\ handledLast' = 0]_vars

\* C5 witness: a prefix of the pattern was discarded by stop(), the rest of
\* the pattern was typed after the next start(), and nothing fired.
C5_Witness ==
  /\ enabled
  /\ discarded # << >>
  /\ stream # << >>
  /\ discarded \o stream = secretCode
  /\ fireLog = << >>

\* ------------------------------------------------------------------------
\* FlappyGame: constants of the source
\* ------------------------------------------------------------------------
\* playerY is kept in half percents so that the gravity of 0.5 is an
\* integer: 100 stands for 50%, 180 for 90%, 10 for the key step of 5.
PlayerStartY == 100     \* setPlayerPosition({ y: 50 })
MaxPlayerY == 180       \* Math.min(90, ...)
KeyStep == 10           \* prev.y - 5, prev.y + 5
Gravity == 1            \* prev.y + 0.5
ObstacleSpeed == 2      \* obs.x - 2
RecycleBelow == -50     \* newObstacles[i].x < -50
RecycleAhead == 300     \* rightmostX + 300
GapSize == 30           \* const gapSize = 30
MinHeight == 20         \* 20 + Math.random() * 50
HeightSpan == 50
FirstOffset == 50       \* rect.width + 50, + 200, + 350
SecondOffset == 200
ThirdOffset == 350
\* Geometry of the rendered elements, in CSS pixels.
AreaHeight == 252       \* play field h-64 (256px) less its border-2
PlayerLeft == 40        \* left-10
PlayerSize == 40        \* w-10 h-10
PlayerRise == 20        \* top: calc(y% - 20px)
ObstacleWidth == 48     \* w-12
CrashDrop == 100        \* crash animation: y: 100
FullHeight == 100       \* height: `${100 - obstacle.height - obstacle.gapSize}%`

\* ------------------------------------------------------------------------
\* Bounds of the game model
\* ------------------------------------------------------------------------
FramesPerSecond == 2    \* animation frames per second of the host
MaxFrames == 6          \* frames modelled after mount
MaxKeys == 1            \* key presses modelled
MaxClicks == 1          \* clicks on the close button modelled
MaxAreaWidth == 30      \* width of the play field modelled
ClockBase == 1000       \* Date.now() at mount
RunLead == 2            \* ticks between the start of a run in progress and
                        \* the next replacement of an obstacle

\* Durations, in frames: the crash animation (duration: 1), the restart
\* delay (setTimeout 1000) and the close animation (duration: 0.5).
CrashFrames == FramesPerSecond
RestartFrames == FramesPerSecond
CloseFrames == (FramesPerSecond + 1) \div 2

\* Widths the play field is measured with.
AreaWidths == {MaxAreaWidth}

\* Sampled values of 20 + Math.random() * 50, which lies in [20, 70).
Heights == {MinHeight, MinHeight + 15, MinHeight + HeightSpan - 1}

\* Sampled displacements of the player while a crash animation runs.
CrashShifts == {0, CrashDrop}

GameKeys == {"ArrowUp", " ", "ArrowDown", "Escape", "x"}

\* Date.now(): one clock value per frame.
DateNow == ClockBase + frame

Min(a, b) == IF a < b THEN a ELSE b
Max(a, b) == IF a > b THEN a ELSE b

\* ------------------------------------------------------------------------
\* FlappyGame: functions
\* ------------------------------------------------------------------------

\* Mutant of createObstacle: the id passed in is ignored and the clock is
\* always used.
createObstacleClockId(xPosition, id, h, now) ==
  [id |-> now,
   x |-> xPosition,
   height |-> h,
   gapSize |-> GapSize]

\* Mutant of createObstacle: the height is drawn without leaving room for
\* the gap.
createObstacleNoRoom(xPosition, id, h, now) ==
  [id |-> IF id = 0 THEN now ELSE id,
   x |-> xPosition,
   height |-> h + GapSize,
   gapSize |-> GapSize]

\* createObstacle(xPosition, id), with h the value drawn for height.
createObstacle(xPosition, id, h, now) ==
  [id |-> IF id = 0 THEN now ELSE id,
   x |-> xPosition,
   height |-> h,
   gapSize |-> GapSize]

\* The refs are assigned when the elements are created and nothing clears
\* them, so after mount they stay set, also once the component is disposed.
refsSet == TRUE

\* getBoundingClientRect().width of the play field: its laid-out width, and
\* 0 once the element is out of the document.
measuredWidth == IF mounted THEN areaWidth ELSE 0

\* The obstacles seeded by initGame for width w and drawn heights hs.
seedObstacles(w, hs) ==
  <<createObstacle(w + FirstOffset, 1, hs[1], DateNow),
    createObstacle(w + SecondOffset, 2, hs[2], DateNow),
    createObstacle(w + ThirdOffset, 3, hs[3], DateNow)>>

\* Math.max(...newObstacles.map(o => o.x))
RECURSIVE maxX(_, _)
maxX(arr, i) ==
  IF i = Len(arr) THEN arr[i].x ELSE Max(arr[i].x, maxX(arr, i + 1))

\* Mutant of recycleFrom: a replacement does not score.
RECURSIVE recycleFromNoScore(_, _, _, _)
recycleFromNoScore(i, arr, hs, now) ==
  IF i > Len(arr) THEN [obs |-> arr, scored |-> 0]
  ELSE IF arr[i].x < RecycleBelow
    THEN LET rightmostX == maxX(arr, 1)
             replaced == [arr EXCEPT
                            ![i] = createObstacle(rightmostX + RecycleAhead,
                                                  now, hs[i], now)]
             rest == recycleFromNoScore(i + 1, replaced, hs, now)
         IN [obs |-> rest.obs, scored |-> rest.scored]
    ELSE recycleFromNoScore(i + 1, arr, hs, now)

\* Mutant of recycleFrom: the replacement is placed 300 ahead of the
\* obstacle it replaces instead of 300 ahead of the rightmost one.
RECURSIVE recycleFromOwnX(_, _, _, _)
recycleFromOwnX(i, arr, hs, now) ==
  IF i > Len(arr) THEN [obs |-> arr, scored |-> 0]
  ELSE IF arr[i].x < RecycleBelow
    THEN LET replaced == [arr EXCEPT
                            ![i] = createObstacle(arr[i].x + RecycleAhead,
                                                  now, hs[i], now)]
             rest == recycleFromOwnX(i + 1, replaced, hs, now)
         IN [obs |-> rest.obs, scored |-> rest.scored + 1]
    ELSE recycleFromOwnX(i + 1, arr, hs, now)

\* The replacement loop of updateGame over the moved obstacles, from index
\* i on: the resulting array and the number of setScore(prev + 1) calls.
RECURSIVE recycleFrom(_, _, _, _)
recycleFrom(i, arr, hs, now) ==
  IF i > Len(arr) THEN [obs |-> arr, scored |-> 0]
  ELSE IF arr[i].x < RecycleBelow
    THEN LET rightmostX == maxX(arr, 1)
             replaced == [arr EXCEPT
                            ![i] = createObstacle(rightmostX + RecycleAhead,
                                                  now, hs[i], now)]
             rest == recycleFrom(i + 1, replaced, hs, now)
         IN [obs |-> rest.obs, scored |-> rest.scored + 1]
    ELSE recycleFrom(i + 1, arr, hs, now)

\* The setObstacles updater of updateGame.
moveObstacles(obs, hs, now) ==
  LET updated == [i \in DOMAIN obs |->
                    [obs[i] EXCEPT !.x = @ - ObstacleSpeed]]
  IN recycleFrom(1, updated, hs, now)

\* document.getElementById(`obs-top-${id}`): the first rendered obstacle
\* carrying the id (0 when there is none).
elementIndex(obs, id) ==
  IF \E i \in DOMAIN obs : obs[i].id = id
    THEN CHOOSE i \in DOMAIN obs :
           obs[i].id = id /\ \A j \in DOMAIN obs : obs[j].id = id => i <= j
    ELSE 0

\* Vertical edges, scaled by 200 to stay in the integers: the player at y
\* (half percents) shifted by shift px, and the gap of an obstacle element.
playerTop(y, shift) == y * AreaHeight - 200 * PlayerRise + 200 * shift
playerBottom(y, shift) == playerTop(y, shift) + 200 * PlayerSize
gapTop(o) == 2 * o.height * AreaHeight
gapBottom(o) == 2 * (o.height + o.gapSize) * AreaHeight

\* Mutant of collides: only the top barrier is tested.
collidesTopOnly(obs, o, y, shift, inDocument) ==
  LET e == elementIndex(obs, o.id)
  IN /\ inDocument
     /\ e # 0
     /\ \/ (PlayerLeft + PlayerSize > obs[e].x
            /\ PlayerLeft < obs[e].x + ObstacleWidth)
        \/ (PlayerLeft + PlayerSize > obs[e].x
            /\ PlayerLeft < obs[e].x + ObstacleWidth)
     /\ playerTop(y, shift) < gapTop(obs[e])

\* The test detectCollisions makes for one obstacle: its elements are found
\* by id, they overlap the player horizontally, and the player is not
\* inside the gap.
collides(obs, o, y, shift, inDocument) ==
  LET e == elementIndex(obs, o.id)
  IN /\ inDocument
     /\ e # 0
     /\ \/ (PlayerLeft + PlayerSize > obs[e].x
            /\ PlayerLeft < obs[e].x + ObstacleWidth)
        \/ (PlayerLeft + PlayerSize > obs[e].x
            /\ PlayerLeft < obs[e].x + ObstacleWidth)
     /\ \/ playerTop(y, shift) < gapTop(obs[e])
        \/ playerBottom(y, shift) > gapBottom(obs[e])

\* detectCollisions(): the number of handleCollision() calls it makes.
detectCollisions(obs, y, shift, inDocument) ==
  Cardinality({i \in DOMAIN obs : collides(obs, obs[i], y, shift, inDocument)})

\* n copies of v appended to seq.
RECURSIVE appendCopies(_, _, _)
appendCopies(seq, v, n) ==
  IF n = 0 THEN seq ELSE appendCopies(Append(seq, v), v, n - 1)

tickDown(seq) == [i \in DOMAIN seq |-> seq[i] - 1]
due(seq) == seq # << >> /\ Head(seq) = 0

\* ------------------------------------------------------------------------
\* FlappyGame: operations
\* ------------------------------------------------------------------------

\* The state initGame leaves in a mounted game: score 0, three obstacles at
\* width + 50, + 200, + 350, the player at 50%, active, one tick scheduled.
FreshRun ==
  /\ score = 0
  /\ Len(obstacles) = 3
  /\ obstacles[1].x = areaWidth + FirstOffset
  /\ obstacles[2].x = areaWidth + SecondOffset
  /\ obstacles[3].x = areaWidth + ThirdOffset
  /\ playerY = PlayerStartY
  /\ gameActive
  /\ rafQueue + rafNext = 1

\* Heights drawn by one updateGame: Math.random() is called only for an
\* obstacle that is replaced.
drawnHeights(obs) ==
  IF \E i \in DOMAIN obs : obs[i].x - ObstacleSpeed < RecycleBelow
    THEN [1..3 -> Heights]
    ELSE {[i \in 1..3 |-> MinHeight]}

\* Mutant of initGame: the player is not put back in the middle.
initGameNoRecentre(hs) ==
  IF ~refsSet
    THEN UNCHANGED <<gameWidth, score, obstacles, playerY, gameActive, rafNext>>
    ELSE /\ gameWidth' = measuredWidth
         /\ score' = 0
         /\ obstacles' = seedObstacles(measuredWidth, hs)
         /\ playerY' = playerY
         /\ gameActive' = TRUE
         /\ rafNext' = rafNext + 1

\* initGame(), with hs the heights drawn for the three obstacles.
initGame(hs) ==
  IF ~refsSet
    THEN UNCHANGED <<gameWidth, score, obstacles, playerY, gameActive, rafNext>>
    ELSE /\ gameWidth' = measuredWidth
         /\ score' = 0
         /\ obstacles' = seedObstacles(measuredWidth, hs)
         /\ playerY' = PlayerStartY
         /\ gameActive' = TRUE
         /\ rafNext' = rafNext + 1

\* closeGame(): the loop is switched off and the close animation starts;
\* props.onClose is its onComplete.
closeGame ==
  /\ gameActive' = FALSE
  /\ closeTweens' = Append(closeTweens, CloseFrames)
  /\ closeRequested' = TRUE

\* Mutant of handleControls: the keys are handled also while the game is
\* not active.
handleControlsAlways(k) ==
  IF k = "ArrowUp" \/ k = " "
    THEN /\ playerY' = Max(0, playerY - KeyStep)
         /\ UNCHANGED <<gameActive, closeTweens, closeRequested>>
  ELSE IF k = "ArrowDown"
    THEN /\ playerY' = Min(MaxPlayerY, playerY + KeyStep)
         /\ UNCHANGED <<gameActive, closeTweens, closeRequested>>
  ELSE IF k = "Escape"
    THEN /\ closeGame
         /\ UNCHANGED playerY
  ELSE UNCHANGED <<playerY, gameActive, closeTweens, closeRequested>>

\* Mutant of handleControls: the upward step is not limited at 0.
handleControlsNoFloor(k) ==
  IF ~gameActive
    THEN UNCHANGED <<playerY, gameActive, closeTweens, closeRequested>>
  ELSE IF k = "ArrowUp" \/ k = " "
    THEN /\ playerY' = playerY - KeyStep
         /\ UNCHANGED <<gameActive, closeTweens, closeRequested>>
  ELSE IF k = "ArrowDown"
    THEN /\ playerY' = Min(MaxPlayerY, playerY + KeyStep)
         /\ UNCHANGED <<gameActive, closeTweens, closeRequested>>
  ELSE IF k = "Escape"
    THEN /\ closeGame
         /\ UNCHANGED playerY
  ELSE UNCHANGED <<playerY, gameActive, closeTweens, closeRequested>>

\* handleControls(e)
handleControls(k) ==
  IF ~gameActive
    THEN UNCHANGED <<playerY, gameActive, closeTweens, closeRequested>>
  ELSE IF k = "ArrowUp" \/ k = " "
    THEN /\ playerY' = Max(0, playerY - KeyStep)
         /\ UNCHANGED <<gameActive, closeTweens, closeRequested>>
  ELSE IF k = "ArrowDown"
    THEN /\ playerY' = Min(MaxPlayerY, playerY + KeyStep)
         /\ UNCHANGED <<gameActive, closeTweens, closeRequested>>
  ELSE IF k = "Escape"
    THEN /\ closeGame
         /\ UNCHANGED playerY
  ELSE UNCHANGED <<playerY, gameActive, closeTweens, closeRequested>>

\* A keydown event on document while the game's listener may be attached.
KeyPress ==
  \E k \in GameKeys :
    /\ keysUsed < MaxKeys
    /\ IF "handleControls" \in docListeners
         THEN handleControls(k)
         ELSE UNCHANGED <<playerY, gameActive, closeTweens, closeRequested>>
    /\ lastKey' = k
    /\ keysUsed' = keysUsed + 1
    /\ gop' = "key"
    /\ UNCHANGED <<score, obstacles, gameWidth, mounted, areaWidth,
                   playerShift, rafQueue, rafNext, crashTweens,
                   restartTimers, onCloseCalls, frame, hits, clicksUsed,
                   owed>>
    /\ UNCHANGED detVars

\* A click on the close button (onClick={closeGame}) while it is rendered.
ClickClose ==
  /\ mounted
  /\ clicksUsed < MaxClicks
  /\ closeGame
  /\ clicksUsed' = clicksUsed + 1
  /\ gop' = "click"
  /\ UNCHANGED <<score, playerY, obstacles, gameWidth, mounted, areaWidth,
                 playerShift, rafQueue, rafNext, crashTweens, restartTimers,
                 onCloseCalls, frame, hits, lastKey, keysUsed, owed>>
  /\ UNCHANGED detVars

\* The host starts the next animation frame: the callbacks requested so
\* far become due, and the running animations and timers advance by one
\* frame. Everything due in the current frame has run before.
NextFrame ==
  /\ frame < MaxFrames
  /\ rafQueue = 0
  /\ ~due(crashTweens) /\ ~due(restartTimers) /\ ~due(closeTweens)
  /\ frame' = frame + 1
  /\ rafQueue' = rafNext
  /\ rafNext' = 0
  /\ crashTweens' = tickDown(crashTweens)
  /\ restartTimers' = tickDown(restartTimers)
  /\ closeTweens' = tickDown(closeTweens)
  /\ playerShift' \in (IF crashTweens # << >> THEN CrashShifts
                                               ELSE {playerShift})
  /\ gop' = "frame"
  /\ UNCHANGED <<score, playerY, obstacles, gameActive, gameWidth, mounted,
                 areaWidth, onCloseCalls, hits, lastKey, keysUsed,
                 clicksUsed, closeRequested, owed>>
  /\ UNCHANGED detVars

\* Mutant of Tick: the collisions are detected before the obstacles are
\* moved and replaced.
TickDetectsFirst ==
  /\ rafQueue > 0
  /\ rafQueue' = rafQueue - 1
  /\ gop' = "tick"
  /\ IF ~gameActive
       THEN /\ hits' = 0
            /\ UNCHANGED <<playerY, obstacles, score, crashTweens, rafNext,
                           owed>>
       ELSE \E hs \in drawnHeights(obstacles) :
              LET y == Min(MaxPlayerY, playerY + Gravity)
                  moved == moveObstacles(obstacles, hs, DateNow)
                  n == detectCollisions(obstacles, y, playerShift, mounted)
              IN /\ playerY' = y
                 /\ obstacles' = moved.obs
                 /\ score' = score + moved.scored
                 /\ hits' = n
                 /\ owed' = IF n > 0 /\ owed = -1 THEN frame ELSE owed
                 /\ crashTweens' = appendCopies(crashTweens, CrashFrames, n)
                 /\ rafNext' = IF gameActive THEN rafNext + 1 ELSE rafNext
  /\ UNCHANGED <<gameActive, gameWidth, mounted, areaWidth, playerShift,
                 restartTimers, closeTweens, onCloseCalls, frame, lastKey,
                 keysUsed, clicksUsed, closeRequested>>
  /\ UNCHANGED detVars

\* updateGame(), run as an animation-frame callback; handleCollision() is
\* called once per colliding obstacle and only starts the crash animation.
Tick ==
  /\ rafQueue > 0
  /\ rafQueue' = rafQueue - 1
  /\ gop' = "tick"
  /\ IF ~gameActive
       THEN /\ hits' = 0
            /\ UNCHANGED <<playerY, obstacles, score, crashTweens, rafNext,
                           owed>>
       ELSE \E hs \in drawnHeights(obstacles) :
              LET y == Min(MaxPlayerY, playerY + Gravity)
                  moved == moveObstacles(obstacles, hs, DateNow)
                  n == detectCollisions(moved.obs, y, playerShift, mounted)
              IN /\ playerY' = y
                 /\ obstacles' = moved.obs
                 /\ score' = score + moved.scored
                 /\ hits' = n
                 /\ owed' = IF n > 0 /\ owed = -1 THEN frame ELSE owed
                 /\ crashTweens' = appendCopies(crashTweens, CrashFrames, n)
                 /\ rafNext' = IF gameActive THEN rafNext + 1 ELSE rafNext
  /\ UNCHANGED <<gameActive, gameWidth, mounted, areaWidth, playerShift,
                 restartTimers, closeTweens, onCloseCalls, frame, lastKey,
                 keysUsed, clicksUsed, closeRequested>>
  /\ UNCHANGED detVars

\* onComplete of a crash animation: the loop is switched off and the
\* restart timeout is set.
CrashTweenComplete ==
  /\ due(crashTweens)
  /\ crashTweens' = Tail(crashTweens)
  /\ gameActive' = FALSE
  /\ restartTimers' = Append(restartTimers, RestartFrames)
  /\ playerShift' = CrashDrop
  /\ gop' = "crashed"
  /\ UNCHANGED <<score, playerY, obstacles, gameWidth, mounted, areaWidth,
                 rafQueue, rafNext, closeTweens, onCloseCalls, frame, hits,
                 lastKey, keysUsed, clicksUsed, closeRequested, owed>>
  /\ UNCHANGED detVars

\* The restart timeout fires: if (gameRef) { gsap.set(...); initGame(); }
RestartTimerFire ==
  /\ due(restartTimers)
  /\ restartTimers' = Tail(restartTimers)
  /\ IF refsSet
       THEN /\ playerShift' = 0
            /\ \E hs \in [1..3 -> Heights] : initGame(hs)
       ELSE UNCHANGED <<playerShift, gameWidth, score, obstacles, playerY,
                        gameActive, rafNext>>
  /\ gop' = "restart"
  /\ UNCHANGED <<mounted, areaWidth, rafQueue, crashTweens, closeTweens,
                 onCloseCalls, frame, hits, lastKey, keysUsed, clicksUsed,
                 closeRequested>>
  /\ owed' = IF FreshRun' THEN -1 ELSE owed
  /\ UNCHANGED <<secretCode, sequence, enabled, docListeners, stream,
                 fireLog, handledLast, discarded, op, script, fed>>

\* onComplete of a close animation: props.onClose(), which is the page's
\* setShowSecretGame(false); the component is disposed and its onCleanup
\* removes the key listener.
CloseTweenComplete ==
  /\ due(closeTweens)
  /\ closeTweens' = Tail(closeTweens)
  /\ onCloseCalls' = onCloseCalls + 1
  /\ mounted' = FALSE
  /\ docListeners' = removeEventListener(docListeners, "handleControls")
  /\ gop' = "closed"
  /\ UNCHANGED <<score, playerY, obstacles, gameActive, gameWidth, areaWidth,
                 playerShift, rafQueue, rafNext, crashTweens, restartTimers,
                 frame, hits, lastKey, keysUsed, clicksUsed, closeRequested,
                 owed>>
  /\ UNCHANGED <<secretCode, sequence, enabled, stream, fireLog,
                 handledLast, discarded, op, script, fed>>

\* The state after onMount: the key listener is attached and initGame()
\* has run. The page's code detector is a separate component and is left
\* out of the game's specification.
InitGame ==
  /\ secretCode = KONAMI_CODE
  /\ sequence = << >>
  /\ enabled = FALSE
  /\ docListeners = addEventListener({}, "handleControls")
  /\ stream = << >>
  /\ fireLog = << >>
  /\ handledLast = 0
  /\ discarded = << >>
  /\ op = "new"
  /\ script = << >>
  /\ fed = 0
  /\ mounted = TRUE
  /\ areaWidth \in AreaWidths
  /\ gameWidth = areaWidth
  /\ score = 0
  /\ \E hs \in [1..3 -> Heights] : obstacles = seedObstacles(areaWidth, hs)
  /\ playerY = PlayerStartY
  /\ gameActive = TRUE
  /\ playerShift = 0
  /\ rafQueue = 0
  /\ rafNext = 1
  /\ crashTweens = << >>
  /\ restartTimers = << >>
  /\ closeTweens = << >>
  /\ onCloseCalls = 0
  /\ frame = 0
  /\ gop = "mount"
  /\ hits = 0
  /\ lastKey = "none"
  /\ keysUsed = 0
  /\ clicksUsed = 0
  /\ closeRequested = FALSE
  /\ owed = -1

NextGame ==
  \/ KeyPress
  \/ ClickClose
  \/ NextFrame
  \/ Tick
  \/ CrashTweenComplete
  \/ RestartTimerFire
  \/ CloseTweenComplete

SpecGame == InitGame /\ [][NextGame]_vars

\* ------------------------------------------------------------------------
\* FlappyGame: a run in progress
\* ------------------------------------------------------------------------
\* An obstacle is replaced only after it has travelled from its seed
\* position to below -50, far more ticks than are modelled after mount.
\* The second specification of the game starts where a run has got to after
\* a number of ticks without collision, shortly before a replacement.

\* The tick in which an obstacle seeded at w + offset falls below -50.
recycleTick(w, offset) == ((w + offset - RecycleBelow) \div ObstacleSpeed) + 1

\* n ticks of the setObstacles updater at the clock values t + 1 .. t + n,
\* from the array obs and the score scored, every replacement drawing the
\* height h: the resulting array and score. (The ticks are composed by
\* halves, and the arguments are looked at on entry, to keep the evaluation
\* shallow.)
RECURSIVE obstaclesAfter(_, _, _, _, _)
obstaclesAfter(obs, scored, n, h, t) ==
  IF n = 0 \/ Len(obs) = 0 \/ scored < 0
    THEN [obs |-> obs, scored |-> scored]
  ELSE IF n = 1
    THEN [obs |-> <<moveObstacles(obs, [i \in 1..3 |-> h], t + 1).obs[1],
                    moveObstacles(obs, [i \in 1..3 |-> h], t + 1).obs[2],
                    moveObstacles(obs, [i \in 1..3 |-> h], t + 1).obs[3]>>,
          scored |-> scored
                       + moveObstacles(obs, [i \in 1..3 |-> h], t + 1).scored]
  ELSE obstaclesAfter(obstaclesAfter(obs, scored, n \div 2, h, t).obs,
                      obstaclesAfter(obs, scored, n \div 2, h, t).scored,
                      n - (n \div 2), h, t + (n \div 2))

\* Ticks elapsed at the start: none (the state after onMount), or RunLead
\* ticks before the first, second or third seed is replaced.
StartTicks ==
  {0} \cup {recycleTick(MaxAreaWidth, off) - RunLead :
              off \in {FirstOffset, SecondOffset, ThirdOffset}}

\* Positions the player has been steered to by then.
StartPlayerYs == {KeyStep \div 2, PlayerStartY, MaxPlayerY - RunLead - 1}

\* The state of a mounted, active game after k ticks without collision.
InitRun ==
  /\ secretCode = KONAMI_CODE
  /\ sequence = << >>
  /\ enabled = FALSE
  /\ docListeners = addEventListener({}, "handleControls")
  /\ stream = << >>
  /\ fireLog = << >>
  /\ handledLast = 0
  /\ discarded = << >>
  /\ op = "new"
  /\ script = << >>
  /\ fed = 0
  /\ mounted = TRUE
  /\ areaWidth \in AreaWidths
  /\ gameWidth = areaWidth
  /\ frame = 0
  /\ \E k \in StartTicks, h \in Heights :
       LET run == obstaclesAfter(seedObstacles(areaWidth, [i \in 1..3 |-> h]),
                                 0, k, h, ClockBase - k)
       IN /\ obstacles = run.obs
          /\ score = run.scored
          /\ playerY \in (IF k = 0 THEN {PlayerStartY} ELSE StartPlayerYs)
          /\ gop = (IF k = 0 THEN "mount" ELSE "tick")
  /\ detectCollisions(obstacles, playerY, 0, TRUE) = 0
  /\ gameActive = TRUE
  /\ playerShift = 0
  /\ rafQueue = 0
  /\ rafNext = 1
  /\ crashTweens = << >>
  /\ restartTimers = << >>
  /\ closeTweens = << >>
  /\ onCloseCalls = 0
  /\ hits = 0
  /\ lastKey = "none"
  /\ keysUsed = 0
  /\ clicksUsed = 0
  /\ closeRequested = FALSE
  /\ owed = -1

SpecRun == InitRun /\ [][NextGame]_vars

\* ------------------------------------------------------------------------
\* Properties of the game
\* ------------------------------------------------------------------------

\* C6: a tick whose collision detection finds a collision leaves the game
\* crashed: active is false and no further tick is scheduled.
C6_CollisionStopsLoop ==
  (gop = "tick" /\ hits > 0) => (~gameActive /\ rafNext = 0)

\* C7: every collision in a game that is not closed is followed by a fresh
\* run started by initGame (score 0, the three obstacles at their staggered
\* offsets, the player at 50%, active, one tick scheduled), after the crash
\* animation and the restart delay: no frame later than CrashFrames +
\* RestartFrames after the collision begins before the fresh run has
\* started. (The host always has a step to take, a due callback or the
\* next frame, so the deadline is met in time and not by standing still.)
C7_CollisionLeadsToFreshRun ==
  (owed # -1 /\ ~closeRequested) =>
    frame <= owed + CrashFrames + RestartFrames

\* C7 witness: the restart timeout of a crashed, never closed game has just
\* run initGame.
C7_Witness ==
  /\ gop = "restart"
  /\ FreshRun
  /\ owed = -1
  /\ frame > 0
  /\ mounted
  /\ ~closeRequested

\* C8: an Escape key press in a mounted game starts the close animation,
\* whatever the value of active.
C8_EscapeAlwaysCloses ==
  (gop = "key" /\ lastKey = "Escape" /\ mounted) =>
    (closeRequested /\ closeTweens # << >>)

\* C9: props.onClose is invoked at most once for one game instance.
C9_OnCloseAtMostOnce == onCloseCalls <= 1

\* C10: once closeGame has been invoked or the component is unmounted, the
\* game is never active again.
C10_ClosedIsTerminal == (closeRequested \/ ~mounted) => ~gameActive

\* C11: playerY is always within [0, 90] (0 .. MaxPlayerY in half
\* percents), whatever initGame, the ticks and the keys have done.
C11_PlayerYInRange == 0 <= playerY /\ playerY <= MaxPlayerY

\* C11 witness: an upward key press that would have taken the player above
\* the top has left it at 0.
C11_Witness ==
  /\ gop = "key"
  /\ lastKey \in {"ArrowUp", " "}
  /\ playerY = 0
  /\ gameActive

\* C12: a tick of an active game adds to the score exactly the number of
\* obstacles whose x after the move is below -50, replaces those in place
\* and only moves the others, so the number of obstacles stays 3; a tick of
\* an inactive game and every other step leave the score alone, except that
\* initGame sets it to 0.
C12_ScorePerRecycle ==
  /\ [](Len(obstacles) = 3 /\ score >= 0)
  /\ [][/\ (gop' = "tick" /\ gameActive) =>
             /\ score' = score + Cardinality({i \in DOMAIN obstacles :
                            obstacles[i].x - ObstacleSpeed < RecycleBelow})
             /\ Len(obstacles') = Len(obstacles)
             /\ \A i \in DOMAIN obstacles :
                  IF obstacles[i].x - ObstacleSpeed < RecycleBelow
                    THEN obstacles'[i].x >= RecycleBelow
                    ELSE obstacles'[i] =
                           [obstacles[i] EXCEPT !.x = @ - ObstacleSpeed]
        /\ (gop' = "tick" /\ ~gameActive) =>
             (score' = score /\ obstacles' = obstacles)
        /\ gop' # "tick" =>
             (score' = score \/ (gop' = "restart" /\ score' = 0))]_vars

\* C12 witness: the latest tick has replaced an obstacle and scored.
C12_Witness ==
  /\ gop = "tick"
  /\ frame >= 1
  /\ score >= 1
  /\ \E i \in DOMAIN obstacles : obstacles[i].id = DateNow

\* C13: every obstacle, seeded or created by a replacement, has its height
\* in [20, 70] and a gap of 30, so the height of its bottom barrier,
\* 100 - height - gapSize, is not negative.
C13_HeightsLeaveRoom ==
  \A i \in DOMAIN obstacles :
    /\ MinHeight <= obstacles[i].height
    /\ obstacles[i].height <= MinHeight + HeightSpan
    /\ obstacles[i].gapSize = GapSize
    /\ FullHeight - obstacles[i].height - obstacles[i].gapSize >= 0

\* C13 witness: a seeded obstacle and one created by a replacement are
\* live, the latter with the greatest height drawn.
C13_Witness ==
  /\ \E i \in DOMAIN obstacles : obstacles[i].id \in 1..3
  /\ \E i \in DOMAIN obstacles :
       /\ obstacles[i].id = DateNow
       /\ obstacles[i].height = MinHeight + HeightSpan - 1
  /\ frame >= 1

\* The collection read from its entry r + 1 on, cyclically.
rotation(seq, r) ==
  [i \in 1..Len(seq) |-> seq[((i - 1 + r) % Len(seq)) + 1]]

\* The entries are in strictly increasing order of x.
increasingX(seq) == \A i \in 1..(Len(seq) - 1) : seq[i].x < seq[i + 1].x

\* Neighbouring entries are the same distance apart.
evenlySpaced(seq) ==
  \A i \in 2..(Len(seq) - 1) :
    seq[i].x - seq[i - 1].x = seq[i + 1].x - seq[i].x

\* The distance between two entries.
distanceX(a, b) == IF a.x < b.x THEN b.x - a.x ELSE a.x - b.x

\* C14 as stated: replacing an obstacle keeps the collection in
\* left-to-right order and evenly spaced.
C14_StaysOrderedAndEven ==
  [][(increasingX(obstacles) /\ evenlySpaced(obstacles)) =>
       (increasingX(obstacles') /\ evenlySpaced(obstacles'))]_vars

\* C14 as amended: an obstacle whose x falls below -50 is repositioned to
\* (maximum x among the moved obstacles) + 300 and becomes the rightmost;
\* the collection stays in left-to-right order read cyclically (it is a
\* rotation of the order by x); any two obstacles are at least 150 apart,
\* and once all three seeds have been replaced the neighbours are exactly
\* 300 apart.
C14_RecycledToRightmost ==
  /\ [](\E r \in 0..(Len(obstacles) - 1) :
          increasingX(rotation(obstacles, r)))
  /\ [](\A i, j \in DOMAIN obstacles :
          i # j => distanceX(obstacles[i], obstacles[j])
                     >= SecondOffset - FirstOffset)
  /\ []((\A i \in DOMAIN obstacles : obstacles[i].id \notin 1..3) =>
          \A i \in DOMAIN obstacles :
            \/ \A j \in DOMAIN obstacles : obstacles[i].x <= obstacles[j].x
            \/ \E j \in DOMAIN obstacles :
                 obstacles[i].x - obstacles[j].x = RecycleAhead)
  /\ [][(gop' = "tick" /\ gameActive) =>
          \A i \in DOMAIN obstacles :
            obstacles[i].x - ObstacleSpeed < RecycleBelow =>
              /\ \E j \in DOMAIN obstacles :
                   obstacles'[i].x
                     = obstacles[j].x - ObstacleSpeed + RecycleAhead
              /\ \A j \in DOMAIN obstacles :
                   /\ obstacles'[i].x
                        >= obstacles[j].x - ObstacleSpeed + RecycleAhead
                   /\ obstacles'[i].x >= obstacles'[j].x]_vars

\* C14 witness: the latest tick has replaced the first entry of the
\* collection, which is now the rightmost obstacle, so the collection is no
\* longer in left-to-right order.
C14_Witness ==
  /\ gop = "tick"
  /\ frame >= 1
  /\ obstacles[1].id = DateNow
  /\ \A j \in DOMAIN obstacles : obstacles[1].x >= obstacles[j].x
  /\ ~increasingX(obstacles)

overlapsPlayer(o) ==
  o.x < PlayerLeft + PlayerSize /\ o.x + ObstacleWidth > PlayerLeft

\* The rendered player lies between the bottom edge of o's top barrier and
\* the top edge of its bottom barrier.
insideGap(o) ==
  /\ playerTop(playerY, playerShift) >= gapTop(o)
  /\ playerBottom(playerY, playerShift) <= gapBottom(o)

\* C16: the collision detection of a tick of the rendered, active game
\* reports a collision if and only if some obstacle overlaps the player
\* horizontally and the player is not fully inside that obstacle's gap.
C16_CollisionIffOutsideGap ==
  (gop = "tick" /\ gameActive /\ mounted) =>
    (hits > 0 <=> \E i \in DOMAIN obstacles :
                    overlapsPlayer(obstacles[i]) /\ ~insideGap(obstacles[i]))

\* C16 witness: a collision was reported for a player that is below the top
\* barrier of the overlapping obstacle but reaches into its bottom barrier.
C16_Witness ==
  /\ gop = "tick"
  /\ gameActive
  /\ mounted
  /\ hits > 0
  /\ \E i \in DOMAIN obstacles :
       /\ overlapsPlayer(obstacles[i])
       /\ playerTop(playerY, playerShift) >= gapTop(obstacles[i])
       /\ playerBottom(playerY, playerShift) > gapBottom(obstacles[i])

\* C17: a key other than Escape changes nothing but playerY: while the game
\* is active, ArrowUp and space set it to max(0, playerY - 5), ArrowDown to
\* min(90, playerY + 5) and any other key leaves it; while the game is not
\* active no key changes it. Score, obstacles and active are unchanged.
C17_KeysMoveOnlyPlayer ==
  [][(gop' = "key" /\ lastKey' # "Escape") =>
       /\ UNCHANGED <<score, obstacles, gameActive>>
       /\ playerY' =
            IF ~gameActive \/ "handleControls" \notin docListeners
              THEN playerY
            ELSE IF lastKey' \in {"ArrowUp", " "}
              THEN (IF playerY - KeyStep < 0 THEN 0 ELSE playerY - KeyStep)
            ELSE IF lastKey' = "ArrowDown"
              THEN (IF playerY + KeyStep > MaxPlayerY
                      THEN MaxPlayerY ELSE playerY + KeyStep)
            ELSE playerY]_vars

\* C17 witness: ArrowDown in an active game has left the player at the
\* lower limit.
C17_Witness ==
  /\ gop = "key"
  /\ lastKey = "ArrowDown"
  /\ gameActive
  /\ playerY = MaxPlayerY
  /\ hits = 0

\* C18: a tick entered with active true applies gravity, moves and replaces
\* the obstacles, detects collisions on the positions so obtained, and then
\* schedules the next tick (active is still true); a tick entered with
\* active false changes nothing and schedules nothing.
C18_TickOrder ==
  [][gop' = "tick" =>
       IF gameActive
         THEN /\ playerY' = (IF playerY + Gravity > MaxPlayerY
                               THEN MaxPlayerY ELSE playerY + Gravity)
              /\ \A i \in DOMAIN obstacles :
                   obstacles[i].x - ObstacleSpeed >= RecycleBelow =>
                     obstacles'[i].x = obstacles[i].x - ObstacleSpeed
              /\ hits' = detectCollisions(obstacles', playerY', playerShift',
                                          mounted')
              /\ gameActive'
              /\ rafNext' = rafNext + 1
         ELSE UNCHANGED <<score, playerY, obstacles, gameActive, gameWidth,
                          playerShift, rafNext, crashTweens, restartTimers,
                          closeTweens, onCloseCalls>>]_vars

\* C18 witness: a tick has reported a collision with an obstacle that only
\* its own move brought over the player, and has scheduled the next tick.
C18_Witness ==
  /\ gop = "tick"
  /\ gameActive
  /\ hits > 0
  /\ rafNext >= 1
  /\ \E i \in DOMAIN obstacles :
       /\ overlapsPlayer(obstacles[i])
       /\ obstacles[i].x + ObstacleSpeed >= PlayerLeft + PlayerSize

\* C19: at most one updateGame callback is pending at any time.
C19_SingleLoop == rafQueue + rafNext <= 1

====
